---- MODULE Spec2Model ----
\* Model of the content-reconciliation state machine of the Bee Deals product
\* description generator (src/App.tsx and the AI service layer it calls).
\*
\* One React component holds the state (the useState cells of App).  A user
\* command or the completion of an asynchronous call runs a handler; React
\* then renders the new state and runs the two reconciliation effects on that
\* rendered state.  The model keeps these two steps apart with `effectsPending`:
\* a handler sets it when the effects of the next render have something to do,
\* and while it is TRUE the only enabled action is RunEffects, so no handler
\* can run between a state change and the effects of its render.  A render
\* whose effects return at once is not a step.
EXTENDS Naturals, FiniteSets, Sequences, Bags, TLC

\* ------------------------------------------------------------------ bounds

\* Number of user commands explored in one behaviour.
MaxCommands == 5

\* Length, in tokens, of the inputs whose classification is explored.
MaxInputLen == 3

\* Last millisecond the clock is read in.
MaxClock == 2

\* Number of lines of the responses whose cleaning is explored.
MaxLines == 3

\* Sections whose regenerate, translate and edit controls the user operates:
\* the photo, one text section that is always present and the optional one.
SectionInputs == {"photo", "description", "reviews"}

\* --------------------------------------------------------------- constants

Null == [null |-> TRUE]
NoError == "null"
NoLanguage == "null"

Sections == {"photo", "header", "description", "features", "reviews"}
TextSections == {"header", "description", "features", "reviews"}
RequiredKeys == {"header", "description", "features"}
LANGUAGES == {"English", "Hebrew"}

defaultOptions == [tone |-> "Formal", length |-> "Auto", emojis |-> "No"]
initialSectionLanguages == [s \in TextSections |-> "English"]

\* (key, value) pairs the sidebar buttons can set and values of its language
\* selector: a sample of TONES, LENGTHS and LANGUAGES of constants.ts.
OptionInputs == {<<"tone", "Formal">>, <<"tone", "Casual">>, <<"length", "Short">>}
OutputLanguages == {"auto", "Hebrew"}

\* Inputs typed into the text area: a URL.
\* The text area holds a sequence of tokens.  InputTokens are the pieces of
\* text the classification of an input tells apart: the two HTML markers in
\* a case other than the one the pattern is written in, the two URL schemes,
\* a scheme in upper case, white space, and any other character.
InputTokens == {"<HTML", "<!doctype", "http://", "https://", "HTTP://", " ", "a"}
UserInputs == {<<"http://", "a">>}
\* Every input of at most MaxInputLen tokens.
BoundedInputs == UNION {[1..n -> InputTokens] : n \in 0..MaxInputLen}

VARIABLES
    userInput,               \* text area
    isLoading,               \* a full generation is running
    error,                   \* user-visible error message or NoError
    productData,             \* ProductRecord or Null
    generatedContent,        \* SectionContent (section -> content) or Null
    regeneratingSections,    \* Pending-Operation Set
    logs,                    \* debug log: its raw batch response and latest outcome line
    options,                 \* CustomizationOptions
    outputLanguage,          \* "auto" or a language
    lastUsedOptions,         \* snapshot or Null
    lastUsedOutputLanguage,  \* snapshot or NoLanguage
    sectionLanguages,        \* language tag of each text section
    originLanguage,          \* language detected at extraction
    gen,                     \* the handleGenerate call in flight, or idle
    ops,                     \* bag of section operations in flight
    cycle,                   \* number of Generate commands issued
    commands,                \* number of user commands issued
    effectsPending,          \* a render and its effects are due
    now,                     \* the millisecond Date.now() last returned
    aiText                   \* a response text of the gateway and what is made of it

vars == <<userInput, isLoading, error, productData, generatedContent,
          regeneratingSections, logs, options, outputLanguage, lastUsedOptions,
          lastUsedOutputLanguage, sectionLanguages, originLanguage, gen, ops,
          cycle, commands, effectsPending, now, aiText>>

\* ----------------------------------------------------------------- content

\* A section's content is abstracted to what produced it (k), the language
\* it was written in (l) and the generation cycle whose product it describes
\* (c).  EmptyText is the empty string.
Text(k, l, c) == [k |-> k, l |-> l, c |-> c]
EmptyText == Text("empty", "none", 0)
Truthy(content, s) == s \in DOMAIN content /\ content[s] # EmptyText

GenIdle == [pc |-> "idle"]

\* Lines of the debug log: the [ERROR] line of the three catch blocks of App,
\* the [SUCCESS] line that ends their try blocks, and the raw batch response
\* generateAllContent logs before parsing it.
ErrorLine(op, section) == [line |-> "ERROR", op |-> op, section |-> section]
SuccessLine(op, section) == [line |-> "SUCCESS", op |-> op, section |-> section]
RawLine(r) == [line |-> "GENERATE-ALL raw", response |-> r]

\* addLog appends a line.  Of the list the model keeps the last raw response
\* line and the last outcome line: a new line takes the place of the older
\* line of its kind.
IsOutcome(log) == log.line \in {"ERROR", "SUCCESS"}
addLog(prevLogs, log) == {l \in prevLogs : IsOutcome(l) # IsOutcome(log)} \cup {log}

InitState ==
    /\ isLoading = FALSE
    /\ error = NoError
    /\ productData = Null
    /\ generatedContent = Null
    /\ regeneratingSections = {}
    /\ logs = {}
    /\ options = defaultOptions
    /\ outputLanguage = "auto"
    /\ lastUsedOptions = Null
    /\ lastUsedOutputLanguage = NoLanguage
    /\ sectionLanguages = initialSectionLanguages
    /\ originLanguage = "English"
    /\ gen = GenIdle
    /\ ops = EmptyBag
    /\ cycle = 0
    /\ commands = 0
    /\ effectsPending = FALSE
    /\ now = 0

\* No response text is being looked at.
NoResponse == [call |-> "none", raw |-> <<>>, out |-> <<>>, done |-> TRUE]

Init == userInput = <<>> /\ aiText = NoResponse /\ InitState

\* The state in which an input has been typed or pasted into the text area.
InitInput == userInput \in BoundedInputs /\ aiText = NoResponse /\ InitState

\* A user command can be issued: nothing is waiting to render and the
\* exploration budget is not used up.
CanCommand == ~effectsPending /\ commands < MaxCommands
Command == commands' = commands + 1

\* ------------------------------------------------- src/App.tsx: detectInputType

\* String.prototype.trim: white space is removed at both ends.
RECURSIVE Trim(_)
Trim(input) ==
    IF input = <<>> THEN <<>>
    ELSE IF Head(input) = " " THEN Trim(Tail(input))
    ELSE IF input[Len(input)] = " " THEN Trim(SubSeq(input, 1, Len(input) - 1))
    ELSE input

\* The i flag of a pattern: letters match in either case.
Lower(token) ==
    CASE token = "<HTML" -> "<html"
      [] token = "HTTP://" -> "http://"
      [] OTHER -> token

\* /<html|<!DOCTYPE/i.test(s)
isHtml(s) == \E i \in 1..Len(s) : Lower(s[i]) \in {"<html", "<!doctype"}

\* /^https?:\/\/\S+$/.test(s)
isUrl(s) ==
    /\ Len(s) >= 2
    /\ s[1] \in {"http://", "https://"}
    /\ \A i \in 2..Len(s) : s[i] # " "

\* Faulty variant: the URL pattern is tried before the HTML pattern.
detectInputTypeUrlFirst(input) ==
    LET trimmedInput == Trim(input) IN
    IF isUrl(trimmedInput) THEN "auto"
    ELSE IF isHtml(trimmedInput) THEN "html"
    ELSE "text"

detectInputType(input) ==
    LET trimmedInput == Trim(input) IN
    IF isHtml(trimmedInput) THEN "html"
    ELSE IF isUrl(trimmedInput) THEN "auto"
    ELSE "text"

\* ------------------------------------------------------- extraction service

\* What the extraction call can come back with: the call rejected, a JSON
\* object without a title, or a JSON object with a title.
ExtractionResponses ==
    { [kind |-> "reject", title |-> "", language |-> "", reviews |-> "none", image |-> ""],
      [kind |-> "json", title |-> "", language |-> "en", reviews |-> "none", image |-> ""],
      [kind |-> "json", title |-> "Widget", language |-> "en", reviews |-> "none", image |-> "img"],
      [kind |-> "json", title |-> "Widget", language |-> "he", reviews |-> "some", image |-> "img"] }

ExtractionError(inputType) ==
    CASE inputType = "html" -> "AI failed to extract product data from the provided HTML."
      [] inputType = "text" -> "AI failed to extract product data from the provided text."
      [] OTHER -> "AI failed to extract product data from the URL. The site may be too complex or is blocking access. Try 'Paste HTML' mode."

\* scrapeUrl: if (!url || !url.startsWith('http')) throw, before any call.
InvalidUrlMessage ==
    "Invalid URL provided. Please enter a full URL starting with http:// or https://."
InvalidUrl(url) == url = <<>> \/ Head(url) \notin {"http://", "https://"}

\* Faulty variant: a response without title is accepted.
ExtractUntitled(inputType, input, r, c) ==
    IF inputType = "auto" /\ InvalidUrl(input)
    THEN [ok |-> FALSE, message |-> InvalidUrlMessage]
    ELSE IF r.kind = "reject"
    THEN [ok |-> FALSE, message |-> ExtractionError(inputType)]
    ELSE [ok |-> TRUE,
          data |-> [title |-> r.title,
                    reviews |-> r.reviews,
                    image |-> IF inputType = "text" THEN "" ELSE r.image,
                    language |-> IF r.language = "" THEN "en" ELSE r.language,
                    c |-> c]]

\* scrapeUrl / parseHtmlContent / parseTextContent on the input as typed: the
\* ProductRecord, or a failure; every throw inside the try block is rethrown
\* with the mode's message.
Extract(inputType, input, r, c) ==
    IF inputType = "auto" /\ InvalidUrl(input)
    THEN [ok |-> FALSE, message |-> InvalidUrlMessage]
    ELSE IF r.kind = "reject" \/ r.title = ""
    THEN [ok |-> FALSE, message |-> ExtractionError(inputType)]
    ELSE [ok |-> TRUE,
          data |-> [title |-> r.title,
                    reviews |-> r.reviews,
                    image |-> IF inputType = "text" THEN "" ELSE r.image,
                    language |-> IF r.language = "" THEN "en" ELSE r.language,
                    c |-> c]]

\* ------------------------------------------------------- AI service: generateAll

\* Responses of the gateway to the batch prompt: the call rejected (with an
\* error that carries no message), text that is not JSON, or a JSON object
\* whose keys are each a string ("str"), absent ("missing") or a number ("num").
ObjectResponse(h, d, f, r) ==
    [kind |-> "object", header |-> h, description |-> d, features |-> f, reviews |-> r]
GatewayResponses ==
    { [kind |-> "reject", header |-> "missing", description |-> "missing", features |-> "missing", reviews |-> "missing"],
      [kind |-> "notjson", header |-> "missing", description |-> "missing", features |-> "missing", reviews |-> "missing"],
      ObjectResponse("str", "str", "str", "str"),
      ObjectResponse("str", "str", "str", "missing"),
      ObjectResponse("str", "missing", "str", "missing"),
      ObjectResponse("str", "num", "str", "missing") }

FormatErrorMessage == "AI failed to generate a valid response. Check the debug log for details."
GatewayErrorMessage == ""

\* parsed.key = cleanAiOutput(parsed.key || ''): a missing key becomes the
\* empty string, a string is kept (cleaned).
Coerce(field, language, c) ==
    IF field = "missing" THEN EmptyText ELSE Text("gen", language, c)

\* Faulty variant: a response without one of the required keys is refused.
generateAllContentStrict(product, language, r) ==
    IF r.kind = "reject" THEN [ok |-> FALSE, message |-> GatewayErrorMessage]
    ELSE IF r.kind = "notjson" THEN [ok |-> FALSE, message |-> FormatErrorMessage]
    ELSE IF \E k \in RequiredKeys : r[k] # "str" THEN [ok |-> FALSE, message |-> FormatErrorMessage]
    ELSE [ok |-> TRUE,
          content |-> [k \in RequiredKeys \cup (IF r.reviews = "str" THEN {"reviews"} ELSE {}) |->
                          Text("gen", language, product.c)]]

\* generateAllContent: the parsed and cleaned object, or a thrown error.
generateAllContent(product, language, r) ==
    IF r.kind = "reject" THEN [ok |-> FALSE, message |-> GatewayErrorMessage]
    ELSE IF r.kind = "notjson" THEN [ok |-> FALSE, message |-> FormatErrorMessage]
    ELSE IF \E k \in RequiredKeys : r[k] = "num" THEN [ok |-> FALSE, message |-> FormatErrorMessage]
    ELSE [ok |-> TRUE,
          content |-> [k \in RequiredKeys \cup (IF r.reviews = "str" THEN {"reviews"} ELSE {}) |->
                          Coerce(r[k], language, product.c)]]

\* { ...prev, [section]: newContent }, or null when prev is null.
WithSection(prev, section, newContent) ==
    IF prev = Null THEN Null
    ELSE [k \in DOMAIN prev \cup {section} |-> IF k = section THEN newContent ELSE prev[k]]

\* `${product.image}&t=${Date.now()}`
PhotoUrl(product, t) == [k |-> "image+t", l |-> "none", c |-> product.c, t |-> t]

Image(product) ==
    IF product.image = "" THEN EmptyText ELSE Text("image", "none", product.c)

\* ------------------------------------- reconciliation passes: what they read

OptionsDiffer(a, b) ==
    a.tone # b.tone \/ a.length # b.length \/ a.emojis # b.emojis

\* Faulty variant of the first clause: the effects do not wait for a full
\* generation or a pending section.
EffectsSuppressedWhenAbsent ==
    generatedContent = Null \/ lastUsedOptions = Null

\* The first clause of both effects: nothing to reconcile, or busy.
EffectsSuppressed ==
    generatedContent = Null \/ lastUsedOptions = Null \/ isLoading \/ regeneratingSections # {}

\* Effect for option updates: the sections it hands to handleRegenerateSection.
sectionsToUpdate ==
    IF ~EffectsSuppressed /\ OptionsDiffer(options, lastUsedOptions)
    THEN {"description"} ELSE {}

\* Effect for language updates.
LanguageChanged ==
    /\ ~EffectsSuppressed
    /\ lastUsedOutputLanguage # NoLanguage
    /\ outputLanguage # lastUsedOutputLanguage
targetLanguage == IF outputLanguage = "auto" THEN originLanguage ELSE outputLanguage
sectionsToTranslate ==
    IF LanguageChanged
    THEN {s \in RequiredKeys \cup (IF Truthy(generatedContent, "reviews") THEN {"reviews"} ELSE {}) :
             sectionLanguages[s] # targetLanguage}
    ELSE {}

\* The render that follows a handler runs effects that do something.
EffectsDue == sectionsToUpdate # {} \/ LanguageChanged
Render == effectsPending' = EffectsDue'

\* --------------------------------------------------------- what the UI allows

\* Header.tsx: isGenerateDisabled; App.tsx: isClearDisabled, isResetDisabled.
isGenerateDisabled == isLoading \/ Trim(userInput) = <<>>
isClearDisabled == Trim(userInput) = <<>> /\ generatedContent = Null
isOptionsDefault == options = defaultOptions /\ outputLanguage = "auto"
isResetDisabled == isClearDisabled /\ isOptionsDefault
\* Sidebar: every control is disabled while App passes isLoading = true.
SidebarDisabled == isLoading \/ regeneratingSections # {}
\* ContentPreview renders the card of section s (with its regenerate,
\* translate and edit controls) only when content is shown.
CardShown(s) ==
    /\ ~isLoading
    /\ error = NoError
    /\ generatedContent # Null
    /\ s \in {"photo", "reviews"} => Truthy(generatedContent, s)

\* ------------------------------------------------------------- user commands

SetUserInput(v) ==
    /\ CanCommand
    /\ ~isLoading
    /\ v # userInput
    /\ userInput' = v
    /\ Command
    /\ UNCHANGED <<isLoading, error, productData, generatedContent,
                   regeneratingSections, logs, options, outputLanguage,
                   lastUsedOptions, lastUsedOutputLanguage, sectionLanguages,
                   originLanguage, gen, ops, cycle>>
    /\ UNCHANGED <<now, aiText>>
    /\ Render

updateOption(key, value) ==
    /\ CanCommand
    /\ ~SidebarDisabled
    /\ options[key] # value
    /\ options' = [options EXCEPT ![key] = value]
    /\ Command
    /\ UNCHANGED <<userInput, isLoading, error, productData, generatedContent,
                   regeneratingSections, logs, outputLanguage, lastUsedOptions,
                   lastUsedOutputLanguage, sectionLanguages, originLanguage,
                   gen, ops, cycle>>
    /\ UNCHANGED <<now, aiText>>
    /\ Render

handleLanguageChange(value) ==
    /\ CanCommand
    /\ ~SidebarDisabled
    /\ outputLanguage # value
    /\ outputLanguage' = value
    /\ Command
    /\ UNCHANGED <<userInput, isLoading, error, productData, generatedContent,
                   regeneratingSections, logs, options, lastUsedOptions,
                   lastUsedOutputLanguage, sectionLanguages, originLanguage,
                   gen, ops, cycle>>
    /\ UNCHANGED <<now, aiText>>
    /\ Render

\* handleGenerate up to its first await: the extraction call is issued with
\* the options and output language of this render in its closure.
handleGenerate ==
    /\ CanCommand
    /\ ~isGenerateDisabled
    /\ logs' = {}
    /\ isLoading' = TRUE
    /\ error' = NoError
    /\ generatedContent' = Null
    /\ productData' = Null
    /\ lastUsedOptions' = Null
    /\ lastUsedOutputLanguage' = NoLanguage
    /\ originLanguage' = "English"
    /\ cycle' = cycle + 1
    /\ gen' = [pc |-> "extract", inputType |-> detectInputType(userInput),
               input |-> userInput,
               options |-> options, outputLanguage |-> outputLanguage,
               c |-> cycle + 1]
    /\ Command
    /\ UNCHANGED <<userInput, regeneratingSections, options, outputLanguage,
                   sectionLanguages, ops>>
    /\ UNCHANGED <<now, aiText>>
    /\ Render

\* Faulty variant: the message of the error is shown as it is.
errorMessageRaw(message) == message

\* e.message || 'An unexpected error occurred.'
errorMessage(message) ==
    IF message = "" THEN "An unexpected error occurred." ELSE message

\* The catch and finally blocks of handleGenerate.
GenerateFails(message, seen) ==
    /\ error' = errorMessage(message)
    /\ logs' = addLog(seen, ErrorLine("generate", "all"))
    /\ isLoading' = FALSE
    /\ gen' = GenIdle

\* The extraction call settles; on success processScrapedData runs up to its
\* await of generateAllContent.
ExtractionSettles(r) ==
    /\ ~effectsPending
    /\ gen.pc = "extract"
    /\ LET res == Extract(gen.inputType, gen.input, r, gen.c) IN
       IF res.ok
       THEN LET initialLanguage == IF res.data.language = "he" THEN "Hebrew" ELSE "English"
                generationLanguage == IF gen.outputLanguage = "auto" THEN initialLanguage
                                      ELSE gen.outputLanguage
            IN /\ productData' = res.data
               /\ originLanguage' = initialLanguage
               /\ sectionLanguages' = [s \in TextSections |-> generationLanguage]
               /\ gen' = [pc |-> "generateAll", inputType |-> gen.inputType,
                          input |-> gen.input,
                          options |-> gen.options, outputLanguage |-> gen.outputLanguage,
                          c |-> gen.c, scrapedData |-> res.data,
                          generationLanguage |-> generationLanguage]
               /\ UNCHANGED <<error, logs, isLoading>>
       ELSE /\ GenerateFails(res.message, logs)
            /\ UNCHANGED <<productData, originLanguage, sectionLanguages>>
    /\ UNCHANGED <<userInput, generatedContent, regeneratingSections, options,
                   outputLanguage, lastUsedOptions, lastUsedOutputLanguage, ops,
                   cycle, commands>>
    /\ UNCHANGED <<now, aiText>>
    /\ Render

\* The batch generation call settles: the rest of processScrapedData, then
\* the finally block of handleGenerate.
GenerateAllSettles(r) ==
    /\ ~effectsPending
    /\ gen.pc = "generateAll"
    /\ LET res == generateAllContent(gen.scrapedData, gen.generationLanguage, r)
           seen == IF r.kind = "reject" THEN logs ELSE addLog(logs, RawLine(r))
       IN
       IF res.ok
       THEN /\ generatedContent' = WithSection(res.content, "photo", Image(gen.scrapedData))
            /\ lastUsedOptions' = gen.options
            /\ lastUsedOutputLanguage' = gen.outputLanguage
            /\ isLoading' = FALSE
            /\ gen' = GenIdle
            /\ logs' = addLog(seen, SuccessLine("generate", "all"))
            /\ UNCHANGED error
       ELSE /\ GenerateFails(res.message, seen)
            /\ UNCHANGED <<generatedContent, lastUsedOptions, lastUsedOutputLanguage>>
    /\ UNCHANGED <<userInput, productData, regeneratingSections, options,
                   outputLanguage, sectionLanguages, originLanguage, ops, cycle,
                   commands>>
    /\ UNCHANGED <<now, aiText>>
    /\ Render

\* Faulty variant: the error message survives the clearing.
ClearStateKeepsError ==
    /\ userInput' = <<>>
    /\ generatedContent' = Null
    /\ productData' = Null
    /\ logs' = {}
    /\ UNCHANGED error

ClearState ==
    /\ userInput' = <<>>
    /\ generatedContent' = Null
    /\ productData' = Null
    /\ error' = NoError
    /\ logs' = {}

handleClear ==
    /\ CanCommand
    /\ ~isClearDisabled
    /\ ClearState
    /\ Command
    /\ UNCHANGED <<isLoading, regeneratingSections, options, outputLanguage,
                   lastUsedOptions, lastUsedOutputLanguage, sectionLanguages,
                   originLanguage, gen, ops, cycle>>
    /\ UNCHANGED <<now, aiText>>
    /\ Render

handleReset ==
    /\ CanCommand
    /\ ~isResetDisabled
    /\ ClearState
    /\ options' = defaultOptions
    /\ outputLanguage' = "auto"
    /\ Command
    /\ UNCHANGED <<isLoading, regeneratingSections, lastUsedOptions,
                   lastUsedOutputLanguage, sectionLanguages, originLanguage,
                   gen, ops, cycle>>
    /\ UNCHANGED <<now, aiText>>
    /\ Render

\* ------------------------------------------------------- section operations

\* The guards at the top of handleRegenerateSection and handleTranslateSection,
\* evaluated on the state of the render whose closure the handler holds.
RegenerateAdmitted(section) ==
    productData # Null /\ section \notin regeneratingSections
TranslateAdmitted(section) ==
    productData # Null /\ generatedContent # Null /\ section \notin regeneratingSections

\* Faulty variant: a section is regenerated in the resolved output language.
languageForSectionTarget(section) == targetLanguage

\* sectionLanguages[section] || 'English'
languageForSection(section) ==
    IF section \in DOMAIN sectionLanguages THEN sectionLanguages[section] ELSE "English"

\* The call of regenerateSectionContent / translateContent in flight: what its
\* closure holds and what its result will be written from.
RegenerateOp(section) ==
    [kind |-> "regenerate", section |-> section,
     language |-> languageForSection(section), c |-> productData.c]
TranslateOp(section, language) ==
    [kind |-> "translate", section |-> section,
     language |-> language, c |-> generatedContent[section].c]

\* The text a settled call returns, the content after
\* setGeneratedContent(prev => prev ? { ...prev, [section]: newContent } : null)
\* and the tags after setSectionLanguages (translate only).
ResultText(op) ==
    Text(IF op.kind = "translate" THEN "trans" ELSE "regen", op.language, op.c)
\* Faulty variants: the result of the call is not stored; the tag of a
\* translated section is not set; a translation sets the tag of every section.
ContentAfterDropped(prev, op) == prev
LanguagesAfterKept(prev, op) == prev
LanguagesAfterAll(prev, op) ==
    IF op.kind = "translate" THEN [s \in DOMAIN prev |-> op.language] ELSE prev

ContentAfter(prev, op) == WithSection(prev, op.section, ResultText(op))
LanguagesAfter(prev, op) ==
    IF op.kind = "translate" THEN [prev EXCEPT ![op.section] = op.language] ELSE prev

OtherLanguage(language) == IF language = "English" THEN "Hebrew" ELSE "English"

\* Ctrl+1..5 or the regenerate button of a card.  The photo is "regenerated"
\* without a gateway call: the result is there before any other event.
handleRegenerateSection(section) ==
    /\ CanCommand
    /\ IF ~RegenerateAdmitted(section)
       THEN UNCHANGED vars
       ELSE /\ Command
            /\ IF section = "photo"
               THEN /\ UNCHANGED aiText
                    /\ now' \in {now, now + 1}
                    /\ now' <= MaxClock
                    /\ generatedContent' =
                          WithSection(generatedContent, "photo", PhotoUrl(productData, now'))
                    /\ logs' = addLog(logs, SuccessLine("regenerate", "photo"))
                    /\ UNCHANGED <<ops, regeneratingSections>>
               ELSE /\ ops' = ops (+) SetToBag({RegenerateOp(section)})
                    /\ regeneratingSections' = regeneratingSections \cup {section}
                    /\ UNCHANGED <<generatedContent, logs, now, aiText>>
            /\ UNCHANGED <<userInput, isLoading, error, productData, options,
                           outputLanguage, lastUsedOptions, lastUsedOutputLanguage,
                           sectionLanguages, originLanguage, gen, cycle>>
            /\ Render

\* The regenerate button of a section's card.
RegenerateButton(section) ==
    /\ CardShown(section)
    /\ handleRegenerateSection(section)

\* handleKeyDown: Ctrl+1..Ctrl+5.  The keys pressed are those of the
\* sections of SectionInputs.
keySections == <<"photo", "header", "description", "features", "reviews">>
KeyInputs == {k \in 1..5 : keySections[k] \in SectionInputs}
\* sections[parseInt(event.key) - 1], sequences counting from 1.
SectionOfKey(key) == keySections[key]

\* Faulty variant: Ctrl+5 goes to the handler whatever the content.
handleKeyDownUnguarded(key) == handleRegenerateSection(SectionOfKey(key))

handleKeyDown(key) ==
    IF key = 5 /\ ~(generatedContent # Null /\ Truthy(generatedContent, "reviews"))
    THEN CanCommand /\ UNCHANGED vars
    ELSE handleRegenerateSection(SectionOfKey(key))

\* The translate button of a text card: the target is the other language.
\* translateContent returns '' at once, without a call, for empty text.
handleTranslateSection(section) ==
    /\ CanCommand
    /\ section \in TextSections
    /\ CardShown(section)
    /\ section \notin regeneratingSections
    /\ IF ~TranslateAdmitted(section)
       THEN UNCHANGED vars
       ELSE LET newLang == OtherLanguage(sectionLanguages[section]) IN
            /\ Command
            /\ IF generatedContent[section] = EmptyText
               THEN /\ sectionLanguages' = [sectionLanguages EXCEPT ![section] = newLang]
                    /\ logs' = addLog(logs, SuccessLine("translate", section))
                    /\ UNCHANGED <<ops, regeneratingSections>>
               ELSE /\ ops' = ops (+) SetToBag({TranslateOp(section, newLang)})
                    /\ regeneratingSections' = regeneratingSections \cup {section}
                    /\ UNCHANGED <<sectionLanguages, logs>>
            /\ UNCHANGED <<userInput, isLoading, error, productData, generatedContent,
                           options, outputLanguage, lastUsedOptions,
                           lastUsedOutputLanguage, originLanguage, gen, cycle>>
            /\ UNCHANGED <<now, aiText>>
            /\ Render

\* EditableCard.handleSave -> handleUpdateContent: the user replaces the text
\* of a shown, idle text card by different text (kept in the same language)
\* or by the empty text.
EditedText(section) ==
    LET old == generatedContent[section] IN
    IF generatedContent = Null \/ section \notin DOMAIN generatedContent THEN {}
    ELSE IF old = EmptyText THEN {Text("edit", sectionLanguages[section], cycle)}
    ELSE {Text("edit", old.l, old.c), EmptyText} \ {old}

\* Faulty variant: an edit also marks the section as written in the output
\* language.
handleUpdateContentTagging(section, newContent) ==
    /\ CanCommand
    /\ section \in TextSections
    /\ CardShown(section)
    /\ section \notin regeneratingSections
    /\ newContent \in EditedText(section)
    /\ generatedContent' = WithSection(generatedContent, section, newContent)
    /\ sectionLanguages' = [sectionLanguages EXCEPT ![section] = OtherLanguage(@)]
    /\ Command
    /\ UNCHANGED <<userInput, isLoading, error, productData, regeneratingSections,
                   logs, options, outputLanguage, lastUsedOptions,
                   lastUsedOutputLanguage, originLanguage, gen, ops, cycle>>
    /\ UNCHANGED <<now, aiText>>
    /\ Render

handleUpdateContent(section, newContent) ==
    /\ CanCommand
    /\ section \in TextSections
    /\ CardShown(section)
    /\ section \notin regeneratingSections
    /\ newContent \in EditedText(section)
    /\ generatedContent' = WithSection(generatedContent, section, newContent)
    /\ Command
    /\ UNCHANGED <<userInput, isLoading, error, productData, regeneratingSections,
                   logs, options, outputLanguage, lastUsedOptions,
                   lastUsedOutputLanguage, sectionLanguages, originLanguage, gen,
                   ops, cycle>>
    /\ UNCHANGED <<now, aiText>>
    /\ Render

\* The gateway call of a section operation settles: the rest of the try
\* block, or the catch block, then the finally block.
\* Faulty variant: a failed call leaves its section in the pending set.
SectionOpSettlesKeepsPending(op, ok) ==
    /\ ~effectsPending
    /\ BagIn(op, ops)
    /\ ops' = ops (-) SetToBag({op})
    /\ IF ok
       THEN /\ regeneratingSections' = regeneratingSections \ {op.section}
            /\ generatedContent' = ContentAfter(generatedContent, op)
            /\ sectionLanguages' = LanguagesAfter(sectionLanguages, op)
            /\ logs' = addLog(logs, SuccessLine(op.kind, op.section))
       ELSE /\ logs' = addLog(logs, ErrorLine(op.kind, op.section))
            /\ UNCHANGED <<generatedContent, sectionLanguages, regeneratingSections>>
    /\ UNCHANGED <<userInput, isLoading, error, productData, options,
                   outputLanguage, lastUsedOptions, lastUsedOutputLanguage,
                   originLanguage, gen, cycle, commands>>
    /\ UNCHANGED <<now, aiText>>
    /\ Render

SectionOpSettles(op, ok) ==
    /\ ~effectsPending
    /\ BagIn(op, ops)
    /\ ops' = ops (-) SetToBag({op})
    /\ regeneratingSections' = regeneratingSections \ {op.section}
    /\ IF ok
       THEN /\ generatedContent' = ContentAfter(generatedContent, op)
            /\ sectionLanguages' = LanguagesAfter(sectionLanguages, op)
            /\ logs' = addLog(logs, SuccessLine(op.kind, op.section))
       ELSE /\ logs' = addLog(logs, ErrorLine(op.kind, op.section))
            /\ UNCHANGED <<generatedContent, sectionLanguages>>
    /\ UNCHANGED <<userInput, isLoading, error, productData, options,
                   outputLanguage, lastUsedOptions, lastUsedOutputLanguage,
                   originLanguage, gen, cycle, commands>>
    /\ UNCHANGED <<now, aiText>>
    /\ Render

\* ------------------------------------------------------ reconciliation passes

\* The order in which the language effect walks the sections, and the section
\* of a set it reaches last.
Position(s) ==
    CASE s = "header" -> 1 [] s = "description" -> 2 [] s = "features" -> 3 [] OTHER -> 4
LastOf(sections) == CHOOSE s \in sections : \A t \in sections : Position(t) <= Position(s)

\* React renders and runs both effects on the rendered state: each handler
\* they call holds that render's state in its closure, so the language effect
\* does not see what the option effect has just added to the pending set.
RunEffects ==
    /\ effectsPending
    /\ effectsPending' = FALSE
    /\ LET regenerated == {s \in sectionsToUpdate : RegenerateAdmitted(s)}
           translated == {s \in sectionsToTranslate : TranslateAdmitted(s)}
           immediate == {s \in translated : generatedContent[s] = EmptyText}
           called == translated \ immediate
       IN /\ lastUsedOptions' = IF sectionsToUpdate # {} THEN options ELSE lastUsedOptions
          /\ lastUsedOutputLanguage' =
                IF LanguageChanged THEN outputLanguage ELSE lastUsedOutputLanguage
          /\ ops' = ops (+) SetToBag({RegenerateOp(s) : s \in regenerated})
                        (+) SetToBag({TranslateOp(s, targetLanguage) : s \in called})
          /\ regeneratingSections' =
                (regeneratingSections \cup regenerated \cup translated) \ immediate
          /\ sectionLanguages' =
                [s \in TextSections |->
                    IF s \in immediate THEN targetLanguage ELSE sectionLanguages[s]]
          /\ logs' = IF immediate = {} THEN logs
                     ELSE addLog(logs, SuccessLine("translate", LastOf(immediate)))
    /\ UNCHANGED <<userInput, isLoading, error, productData, generatedContent,
                   options, outputLanguage, originLanguage, gen, cycle, commands,
                   now, aiText>>

\* ---------------------------------------- AI service: cleaning of responses

\* A response text is a sequence of lines.  ResponseLines are the lines the
\* cleaning tells apart: a markdown heading, an English lead-in alone on its
\* line and one followed by text, the Hebrew lead-in (written here in Latin
\* letters), list items with a dash, a star and the bullet glyph (written o),
\* plain text, a blank line.
ResponseLines ==
    {"# Title", "Here is the list:", "Here is the header: Great", "Lehalan hateur:",
     "- item", "* item", "o item", "Great", ""}
BoundedTexts == UNION {[1..n -> ResponseLines] : n \in 0..MaxLines}

\* The text-producing calls and the part of the response they clean.
CleaningCalls ==
    {"generateAll.header", "generateAll.description", "generateAll.features",
     "generateAll.reviews", "regenerate.text", "regenerate.features", "translate"}

\* String.prototype.trim on a text: blank lines go at both ends.
RECURSIVE TrimLines(_)
TrimLines(text) ==
    IF text = <<>> THEN <<>>
    ELSE IF Head(text) = "" THEN TrimLines(Tail(text))
    ELSE IF text[Len(text)] = "" THEN TrimLines(SubSeq(text, 1, Len(text) - 1))
    ELSE text

\* text.replace(/^#+\s.*$/gm, ''): every heading line becomes an empty line.
RemoveHeadings(text) ==
    [i \in 1..Len(text) |-> IF text[i] = "# Title" THEN "" ELSE text[i]]

\* What /Here is the.*:\s*/i leaves of the line it matches in.
AfterEnglishIntro(line) == IF line = "Here is the header: Great" THEN "Great" ELSE ""
IsEnglishIntro(line) == line \in {"Here is the list:", "Here is the header: Great"}
IsHebrewIntro(line) == line = "Lehalan hateur:"

RECURSIVE DropLeadingBlank(_)
DropLeadingBlank(text) ==
    IF text # <<>> /\ Head(text) = "" THEN DropLeadingBlank(Tail(text)) ELSE text

\* text.replace(/Here is the.*:\s*/i, ''): the first match goes, with the
\* white space (line ends and blank lines included) that follows it.
RemoveEnglishIntro(text) ==
    IF \E i \in 1..Len(text) : IsEnglishIntro(text[i])
    THEN LET i == CHOOSE j \in 1..Len(text) :
                     /\ IsEnglishIntro(text[j])
                     /\ \A k \in 1..(j - 1) : ~IsEnglishIntro(text[k])
             rest == AfterEnglishIntro(text[i])
             after == SubSeq(text, i + 1, Len(text))
         IN IF rest # ""
            THEN SubSeq(text, 1, i - 1) \o <<rest>> \o after
            ELSE SubSeq(text, 1, i - 1) \o DropLeadingBlank(after)
    ELSE text

\* text.replace(<the Hebrew lead-in up to a colon>, ''): the first match goes,
\* its line stays as an empty line.
RemoveHebrewIntro(text) ==
    IF \E i \in 1..Len(text) : IsHebrewIntro(text[i])
    THEN LET i == CHOOSE j \in 1..Len(text) :
                     /\ IsHebrewIntro(text[j])
                     /\ \A k \in 1..(j - 1) : ~IsHebrewIntro(text[k])
         IN [text EXCEPT ![i] = ""]
    ELSE text

cleanAiOutput(text) ==
    IF text = <<>> THEN <<>>
    ELSE TrimLines(RemoveHebrewIntro(RemoveEnglishIntro(RemoveHeadings(TrimLines(text)))))

\* line.replace(/^-|^\*/, <bullet>): "o item" stands for an item with the
\* bullet glyph.
Bullet(line) == IF line \in {"- item", "* item"} THEN "o item" ELSE line

\* .filter(Boolean).join('\n')
NotBlank(line) == line # ""
DropBlankLines(text) == SelectSeq(text, NotBlank)

\* The string a one-line text is.
OneLine(text) == IF text = <<>> THEN "" ELSE text[1]

\* generateAllContent: parsed.features, cleaned line by line.
CleanFeaturesOfBatch(text) ==
    DropBlankLines([i \in 1..Len(text) |-> Bullet(OneLine(cleanAiOutput(<<text[i]>>)))])

\* regenerateSectionContent: the response cleaned as a whole, then the list
\* markers of features.
CleanFeaturesOfSection(text) ==
    LET c == cleanAiOutput(text)
    IN DropBlankLines([i \in 1..Len(c) |-> Bullet(c[i])])

\* What each text-producing call makes of the response text.
CleanedBy(call, text) ==
    CASE call = "generateAll.features" -> CleanFeaturesOfBatch(text)
      [] call = "regenerate.features" -> CleanFeaturesOfSection(text)
      [] OTHER -> cleanAiOutput(text)

\* A call has received its response text and cleans it.
CleanResponse ==
    /\ ~aiText.done
    /\ aiText' = [aiText EXCEPT !.out = CleanedBy(aiText.call, aiText.raw), !.done = TRUE]
    /\ UNCHANGED <<userInput, isLoading, error, productData, generatedContent,
                   regeneratingSections, logs, options, outputLanguage, lastUsedOptions,
                   lastUsedOutputLanguage, sectionLanguages, originLanguage, gen, ops,
                   cycle, commands, effectsPending, now>>

\* A call of CleaningCalls has received a response of BoundedTexts.
InitClean ==
    /\ userInput = <<>>
    /\ aiText \in [call : CleaningCalls, raw : BoundedTexts, out : {<<>>}, done : {FALSE}]
    /\ InitState

\* ------------------------------------------------------------ specification

Next ==
    \/ \E v \in UserInputs : SetUserInput(v)
    \/ \E kv \in OptionInputs : updateOption(kv[1], kv[2])
    \/ \E v \in OutputLanguages : handleLanguageChange(v)
    \/ handleGenerate
    \/ \E r \in ExtractionResponses : ExtractionSettles(r)
    \/ \E r \in GatewayResponses : GenerateAllSettles(r)
    \/ handleClear
    \/ handleReset
    \/ \E s \in SectionInputs : RegenerateButton(s)
    \/ \E key \in KeyInputs : handleKeyDown(key)
    \/ \E s \in SectionInputs : handleTranslateSection(s)
    \/ \E s \in SectionInputs : \E t \in EditedText(s) : handleUpdateContent(s, t)
    \/ \E op \in BagToSet(ops) : \E ok \in BOOLEAN : SectionOpSettles(op, ok)
    \/ RunEffects

Spec == Init /\ [][Next]_vars

\* Every call that was issued settles, and React runs the effects of every
\* render.
Settling ==
    /\ WF_vars(\E r \in ExtractionResponses : ExtractionSettles(r))
    /\ WF_vars(\E r \in GatewayResponses : GenerateAllSettles(r))
    /\ WF_vars(\E op \in BagToSet(ops) : \E ok \in BOOLEAN : SectionOpSettles(op, ok))
    /\ WF_vars(RunEffects)

SpecLive == Init /\ [][Next]_vars /\ Settling

\* Behaviours in which every section call succeeds; every issued call
\* settles and React runs the effects of every render.
NextSucceeding ==
    \/ \E v \in UserInputs : SetUserInput(v)
    \/ \E kv \in OptionInputs : updateOption(kv[1], kv[2])
    \/ \E v \in OutputLanguages : handleLanguageChange(v)
    \/ handleGenerate
    \/ \E r \in ExtractionResponses : ExtractionSettles(r)
    \/ \E r \in GatewayResponses : GenerateAllSettles(r)
    \/ handleClear
    \/ handleReset
    \/ \E s \in SectionInputs : RegenerateButton(s)
    \/ \E key \in KeyInputs : handleKeyDown(key)
    \/ \E s \in SectionInputs : handleTranslateSection(s)
    \/ \E s \in SectionInputs : \E t \in EditedText(s) : handleUpdateContent(s, t)
    \/ \E op \in BagToSet(ops) : SectionOpSettles(op, TRUE)
    \/ RunEffects

SpecSucceeding ==
    /\ Init /\ [][NextSucceeding]_vars
    /\ WF_vars(\E r \in ExtractionResponses : ExtractionSettles(r))
    /\ WF_vars(\E r \in GatewayResponses : GenerateAllSettles(r))
    /\ WF_vars(\E op \in BagToSet(ops) : SectionOpSettles(op, TRUE))
    /\ WF_vars(RunEffects)

\* The cleaning of a response text.
SpecClean == InitClean /\ [][CleanResponse]_vars

\* Generation cycles on an input that is already in the text area.
NextInput ==
    \/ handleGenerate
    \/ \E r \in ExtractionResponses : ExtractionSettles(r)
    \/ \E r \in GatewayResponses : GenerateAllSettles(r)

SpecInput == InitInput /\ [][NextInput]_vars

\* ------------------------------------------------------------------ properties

\* Number of calls of one kind on one section in a bag of calls in flight.
Calls(bag, kind, section) ==
    LET S == {o \in BagToSet(bag) : o.kind = kind /\ o.section = section}
    IN BagCardinality([o \in S |-> bag[o]])
InFlight(section) == Calls(ops, "regenerate", section) + Calls(ops, "translate", section)

\* The step completes the call `op`.
Settles(op) == BagIn(op, ops) /\ ops' = ops (-) SetToBag({op})

\* Ready: content present, no full generation loading, no section pending.
Ready == generatedContent # Null /\ ~isLoading /\ regeneratingSections = {}

\* C1: in every reachable state every section has at most one regenerate or
\* translate operation in flight (a further request on a busy section is
\* dropped).
C1_AtMostOneOperationPerSection ==
    \A s \in Sections : InFlight(s) <= 1

\* C2: description is never under a regenerate operation and a translate
\* operation at once, also when options and output language both differ from
\* their snapshots at the moment the system becomes Ready.
C2_NoRegenerateWithTranslate ==
    ~(Calls(ops, "regenerate", "description") > 0 /\ Calls(ops, "translate", "description") > 0)

\* C3: the reconciliation pass that runs in Ready state with options different
\* from the last-used snapshot issues exactly one regenerate call for
\* description, none for any other section, and makes the snapshot the
\* current options.
C3_OptionChangeRegeneratesDescription ==
    [][ (effectsPending /\ Ready /\ lastUsedOptions # Null
            /\ OptionsDiffer(options, lastUsedOptions))
        => /\ Calls(ops', "regenerate", "description") = Calls(ops, "regenerate", "description") + 1
           /\ \A s \in Sections \ {"description"} :
                 Calls(ops', "regenerate", s) = Calls(ops, "regenerate", s)
           /\ lastUsedOptions' = options ]_vars

\* C4: the reconciliation pass that runs in Ready state with the output
\* language different from its snapshot dispatches, in one step, a translate
\* operation to the resolved target for exactly the text sections (reviews
\* only if present) whose language tag differs from the target (a section
\* whose text is empty needs no call: its tag is set at once), and no
\* translate operation for any other section.
C4_LanguageChangeTranslatesDifferingSections ==
    [][ (effectsPending /\ Ready /\ lastUsedOptions # Null
            /\ lastUsedOutputLanguage # NoLanguage
            /\ outputLanguage # lastUsedOutputLanguage)
        => LET target == IF outputLanguage = "auto" THEN originLanguage ELSE outputLanguage
               present == {s \in TextSections : Truthy(generatedContent, s)}
                          \cup (RequiredKeys \cap DOMAIN generatedContent)
               differing == {s \in present : sectionLanguages[s] # target}
           IN \A s \in Sections :
                 IF s \in differing
                 THEN \/ /\ Calls(ops', "translate", s) = Calls(ops, "translate", s) + 1
                         /\ \E o \in BagToSet(ops') :
                               /\ o.kind = "translate" /\ o.section = s /\ o.language = target
                               /\ CopiesIn(o, ops') = CopiesIn(o, ops) + 1
                      \/ /\ generatedContent[s] = EmptyText
                         /\ sectionLanguages'[s] = target
                         /\ Calls(ops', "translate", s) = Calls(ops, "translate", s)
                 ELSE Calls(ops', "translate", s) = Calls(ops, "translate", s) ]_vars

\* C5: a reconciliation pass dispatches calls only in Ready state, never while
\* a full generation is loading or a section is pending; it dispatches at
\* most one call per section, a regenerate call only when the options differ
\* from their snapshot and a translate call only when the output language
\* differs from its snapshot; once it has dispatched, the snapshots are the
\* current values, so nothing is left over to apply later.
C5_ReconciliationOnlyWhenReady ==
    [][ (commands' = commands /\ \E o \in BagToSet(ops') : CopiesIn(o, ops') > CopiesIn(o, ops))
        => /\ Ready
           /\ \A s \in Sections :
                 /\ Calls(ops', "regenerate", s) <= Calls(ops, "regenerate", s) + 1
                 /\ Calls(ops', "translate", s) <= Calls(ops, "translate", s) + 1
                 /\ Calls(ops', "regenerate", s) > Calls(ops, "regenerate", s)
                       => OptionsDiffer(options, lastUsedOptions)
                 /\ Calls(ops', "translate", s) > Calls(ops, "translate", s)
                       => outputLanguage # lastUsedOutputLanguage
           /\ ~OptionsDiffer(options', lastUsedOptions')
           /\ outputLanguage' = lastUsedOutputLanguage' ]_vars

\* C5 witness: content is present and a section is pending while the options
\* differ from the snapshot taken by the generation; no pass has run.
C5_Witness ==
    /\ ~effectsPending
    /\ generatedContent # Null
    /\ ~isLoading
    /\ regeneratingSections # {}
    /\ lastUsedOptions # Null
    /\ OptionsDiffer(options, lastUsedOptions)
    /\ ops # EmptyBag

\* C6 as stated: when a regenerate call on section S completes, S leaves the
\* Pending-Operation Set, and either it succeeded, S's content is the new
\* content and S's language tag is unchanged, or it failed, the error is
\* logged and the content is unchanged.
C6_RegenerateReplacesContent ==
    [][ \A op \in BagToSet(ops) : (op.kind = "regenerate" /\ Settles(op)) =>
          /\ op.section \notin regeneratingSections'
          /\ \/ /\ SuccessLine("regenerate", op.section) \in logs'
                /\ generatedContent' # Null
                /\ op.section \in DOMAIN generatedContent'
                /\ generatedContent'[op.section] = ResultText(op)
                /\ sectionLanguages'[op.section] = sectionLanguages[op.section]
             \/ /\ ErrorLine("regenerate", op.section) \in logs'
                /\ generatedContent' = generatedContent
                /\ sectionLanguages'[op.section] = sectionLanguages[op.section] ]_vars

\* C6 amended: as C6, but on success S's content is the new content only if
\* SectionContent is present when the call completes; SectionContent that is
\* absent at that moment stays absent.
C6_RegenerateReplacesPresentContent ==
    [][ \A op \in BagToSet(ops) : (op.kind = "regenerate" /\ Settles(op)) =>
          /\ op.section \notin regeneratingSections'
          /\ \/ /\ SuccessLine("regenerate", op.section) \in logs'
                /\ IF generatedContent = Null
                   THEN generatedContent' = Null
                   ELSE /\ generatedContent' # Null
                        /\ op.section \in DOMAIN generatedContent'
                        /\ generatedContent'[op.section] = ResultText(op)
                /\ sectionLanguages'[op.section] = sectionLanguages[op.section]
             \/ /\ ErrorLine("regenerate", op.section) \in logs'
                /\ generatedContent' = generatedContent
                /\ sectionLanguages'[op.section] = sectionLanguages[op.section] ]_vars

\* C6 witness: a regeneration of description succeeded and its result is the
\* content of description.
C6_Witness ==
    /\ SuccessLine("regenerate", "description") \in logs
    /\ generatedContent # Null
    /\ generatedContent["description"].k = "regen"
    /\ "description" \notin regeneratingSections

\* C7 as stated: when a translate call on section S to language L completes,
\* S leaves the Pending-Operation Set, and either it succeeded, S's content
\* is the translated text and S's tag is L, or it failed and S's content and
\* tag are unchanged.
C7_TranslateReplacesContentAndTag ==
    [][ \A op \in BagToSet(ops) : (op.kind = "translate" /\ Settles(op)) =>
          /\ op.section \notin regeneratingSections'
          /\ \/ /\ SuccessLine("translate", op.section) \in logs'
                /\ generatedContent' # Null
                /\ op.section \in DOMAIN generatedContent'
                /\ generatedContent'[op.section] = ResultText(op)
                /\ sectionLanguages'[op.section] = op.language
             \/ /\ ErrorLine("translate", op.section) \in logs'
                /\ generatedContent' = generatedContent
                /\ sectionLanguages'[op.section] = sectionLanguages[op.section] ]_vars

\* C7 amended: as C7, but on success S's content is the translated text only
\* if SectionContent is present when the call completes; if it is absent it
\* stays absent, and S's tag is set to L all the same.
C7_TranslateReplacesPresentContentAndTag ==
    [][ \A op \in BagToSet(ops) : (op.kind = "translate" /\ Settles(op)) =>
          /\ op.section \notin regeneratingSections'
          /\ \/ /\ SuccessLine("translate", op.section) \in logs'
                /\ IF generatedContent = Null
                   THEN generatedContent' = Null
                   ELSE /\ generatedContent' # Null
                        /\ op.section \in DOMAIN generatedContent'
                        /\ generatedContent'[op.section] = ResultText(op)
                /\ sectionLanguages'[op.section] = op.language
             \/ /\ ErrorLine("translate", op.section) \in logs'
                /\ generatedContent' = generatedContent
                /\ sectionLanguages'[op.section] = sectionLanguages[op.section] ]_vars

\* C7 witness: a translation of description succeeded; its result is the
\* content of description, whose tag is the language of the translation.
C7_Witness ==
    /\ SuccessLine("translate", "description") \in logs
    /\ generatedContent # Null
    /\ generatedContent["description"].k = "trans"
    /\ sectionLanguages["description"] = generatedContent["description"].l
    /\ "description" \notin regeneratingSections

\* C8: the completion of a regenerate or translate call on section S changes
\* neither the content nor the language tag of any other section.
C8_CompletionLeavesOtherSections ==
    [][ \A op \in BagToSet(ops) : Settles(op) =>
          \A s \in Sections \ {op.section} :
             /\ s \in TextSections => sectionLanguages'[s] = sectionLanguages[s]
             /\ s \in DOMAIN generatedContent <=> s \in DOMAIN generatedContent'
             /\ s \in DOMAIN generatedContent => generatedContent'[s] = generatedContent[s] ]_vars

\* C8 witness: reviews hold a user edit and description the result of a
\* completed call, header and features what the generation wrote.
C8_Witness ==
    /\ generatedContent # Null
    /\ Truthy(generatedContent, "reviews")
    /\ generatedContent["reviews"].k = "edit"
    /\ generatedContent["description"].k \in {"regen", "trans"}
    /\ generatedContent["header"].k = "gen"
    /\ \E kind \in {"regenerate", "translate"} : SuccessLine(kind, "description") \in logs

\* C9: a Generate cycle that ends with a failure of the extraction or of the
\* batch generation ends with SectionContent absent, loading ended and a
\* non-empty error message.
C9_FailedCycleEndsInNoContent ==
    [][ (gen.pc # "idle" /\ gen'.pc = "idle" /\ ErrorLine("generate", "all") \in logs')
        => /\ generatedContent' = Null
           /\ ~isLoading'
           /\ error' # NoError
           /\ error' # "" ]_vars

\* C9 witness: a cycle has failed after its extraction succeeded.
C9_Witness ==
    /\ gen.pc = "idle"
    /\ ErrorLine("generate", "all") \in logs
    /\ error # NoError
    /\ productData # Null
    /\ generatedContent = Null

\* The batch response the completing generateAll call received.
Received(r) == gen.pc = "generateAll" /\ gen'.pc = "idle" /\ RawLine(r) \in logs'
Malformed(r) == r.kind = "notjson" \/ \E k \in RequiredKeys : r[k] = "num"

GenerationSucceeds ==
    gen.pc = "generateAll" /\ gen'.pc = "idle" /\ SuccessLine("generate", "all") \in logs'

\* C11: the SectionContent stored by a successful generation has exactly the
\* keys photo, header, description and features, plus reviews if and only if
\* the reviews of the ProductRecord are non-empty.
C11_StoredKeysMatchProduct ==
    [][ GenerationSucceeds =>
          DOMAIN generatedContent' =
             {"photo", "header", "description", "features"}
                \cup (IF gen.scrapedData.reviews # "none" THEN {"reviews"} ELSE {}) ]_vars

\* C12: whenever content is present its keys are among photo, header,
\* description, features and reviews, and the reviews key is there only if
\* the ProductRecord of the cycle has non-empty reviews.
C12_ReviewsKeyOnlyWithReviews ==
    (generatedContent # Null /\ productData # Null) =>
       /\ DOMAIN generatedContent \subseteq Sections
       /\ "reviews" \in DOMAIN generatedContent => productData.reviews # "none"

\* C13: whenever content is present, every section's content originates from
\* the latest Generate cycle: none was written by a call started in an
\* earlier cycle.
C13_ContentFromLatestCycle ==
    generatedContent # Null =>
       \A s \in DOMAIN generatedContent :
          generatedContent[s] = EmptyText \/ generatedContent[s].c = cycle

\* C14: a Clear step leaves ProductRecord, SectionContent and error absent
\* and the options and output language as they were; a Reset step does the
\* same but leaves the default options and output language auto; the options
\* and the output language change in no step other than a Reset and the
\* sidebar's own changes.
C14_ClearAndReset ==
    [][ /\ handleClear =>
              /\ productData' = Null /\ generatedContent' = Null /\ error' = NoError
              /\ options' = options /\ outputLanguage' = outputLanguage
        /\ handleReset =>
              /\ productData' = Null /\ generatedContent' = Null /\ error' = NoError
              /\ options' = defaultOptions /\ outputLanguage' = "auto"
        /\ (options' # options \/ outputLanguage' # outputLanguage) =>
              \/ handleReset
              \/ \E kv \in OptionInputs : updateOption(kv[1], kv[2])
              \/ \E v \in OutputLanguages : handleLanguageChange(v) ]_vars

\* C14 witness: everything is cleared after a generation that had failed,
\* and the options the user chose are still there.
C14_Witness ==
    /\ userInput = <<>>
    /\ productData = Null
    /\ generatedContent = Null
    /\ error = NoError
    /\ cycle > 0
    /\ options # defaultOptions
    /\ outputLanguage # "auto"

\* C15: a user edit of section S changes the content of S and nothing else:
\* no call is issued, no language tag, pending set or snapshot changes and no
\* reconciliation pass follows; applied to absent content the update leaves
\* the content absent.
C15_EditChangesOnlyContent ==
    [][ /\ \A s \in Sections : WithSection(Null, s, EmptyText) = Null
        /\ \A s \in SectionInputs : \A text \in EditedText(s) :
          handleUpdateContent(s, text) =>
             /\ generatedContent'[s] = text
             /\ \A k \in Sections \ {s} :
                   /\ k \in DOMAIN generatedContent <=> k \in DOMAIN generatedContent'
                   /\ k \in DOMAIN generatedContent => generatedContent'[k] = generatedContent[k]
             /\ ops' = ops
             /\ sectionLanguages' = sectionLanguages
             /\ regeneratingSections' = regeneratingSections
             /\ lastUsedOptions' = lastUsedOptions
             /\ lastUsedOutputLanguage' = lastUsedOutputLanguage
             /\ ~effectsPending' ]_vars

\* C15 witness: description holds a user edit, nothing is in flight.
C15_Witness ==
    /\ generatedContent # Null
    /\ generatedContent["description"].k = "edit"
    /\ ops = EmptyBag
    /\ regeneratingSections = {}
    /\ ~effectsPending

\* C16: a change of the options changes no language tag; every regenerate
\* call is issued in the current language tag of its section; the pass that
\* only reconciles options and the completion of a regenerate call change no
\* language tag.
C16_OptionsKeepLanguageTags ==
    [][ /\ (\E kv \in OptionInputs : updateOption(kv[1], kv[2]))
              => sectionLanguages' = sectionLanguages
        /\ \A o \in BagToSet(ops') :
              (o.kind = "regenerate" /\ CopiesIn(o, ops') > CopiesIn(o, ops))
              => o.language = sectionLanguages[o.section]
        /\ (effectsPending /\ outputLanguage = lastUsedOutputLanguage)
              => sectionLanguages' = sectionLanguages
        /\ \A op \in BagToSet(ops) :
              (op.kind = "regenerate" /\ Settles(op)) => sectionLanguages' = sectionLanguages ]_vars

\* C16 witness: with output language auto and origin Hebrew, description has
\* been regenerated in Hebrew under changed options and every tag is Hebrew.
C16_Witness ==
    /\ outputLanguage = "auto"
    /\ originLanguage = "Hebrew"
    /\ generatedContent # Null
    /\ generatedContent["description"] = Text("regen", "Hebrew", cycle)
    /\ lastUsedOptions = options
    /\ options # defaultOptions
    /\ \A s \in TextSections : sectionLanguages[s] = "Hebrew"

\* C17: an extraction that yields no title fails the cycle with an error,
\* stores neither ProductRecord nor SectionContent and issues no batch
\* generation call; a ProductRecord is stored only by an extraction that
\* yields a title.
C17_NoRecordWithoutTitle ==
    [][ /\ \A r \in ExtractionResponses :
              (ExtractionSettles(r) /\ r.title = "") =>
                 /\ gen'.pc = "idle"
                 /\ productData' = Null
                 /\ generatedContent' = Null
                 /\ error' # NoError /\ error' # ""
                 /\ ~isLoading'
        /\ (productData' # productData /\ productData' # Null) =>
              gen.pc = "extract" /\ productData'.title # "" ]_vars

\* C17 witness: a cycle on pasted text has failed in its extraction.
C17_Witness ==
    /\ gen.pc = "idle"
    /\ ~isLoading
    /\ cycle > 0
    /\ productData = Null
    /\ generatedContent = Null
    /\ detectInputType(userInput) = "text"
    /\ error = ExtractionError("text")

\* C20: every failure, of a Generate cycle or of a regenerate or translate
\* call, leaves a user-visible error besides its log line.
C20_FailuresAreShown ==
    [][ /\ (gen.pc # "idle" /\ gen'.pc = "idle" /\ ErrorLine("generate", "all") \in logs')
              => error' # NoError
        /\ \A op \in BagToSet(ops) :
              (Settles(op) /\ ErrorLine(op.kind, op.section) \in logs') => error' # NoError ]_vars

\* The mode the priority HTML > URL > text gives the input as typed.
ModeByPriority(input) ==
    LET s == Trim(input) IN
    CASE isHtml(s) -> "html"
      [] ~isHtml(s) /\ isUrl(s) -> "auto"
      [] ~isHtml(s) /\ ~isUrl(s) -> "text"

C19_PhotoRegenerationsDistinct ==
    [][ (/\ generatedContent # Null
         /\ RegenerateAdmitted("photo")
         /\ handleRegenerateSection("photo"))
        => /\ ops' = ops
           /\ generatedContent'["photo"].k = "image+t"
           /\ generatedContent'["photo"].c = productData.c
           /\ generatedContent'["photo"] # generatedContent["photo"] ]_vars

\* Number of section calls in flight.
CallsInFlight(bag) == BagCardinality(bag)
\* The step ends a Generate cycle or a section call with a failure.
FailureStep ==
    \/ gen.pc # "idle" /\ gen'.pc # gen.pc /\ ErrorLine("generate", "all") \in logs'
    \/ \E op \in BagToSet(ops) : Settles(op) /\ ErrorLine(op.kind, op.section) \in logs'

\* The sections for which the reconciliation pass of this render issues a call.
PassIssues ==
    {s \in sectionsToUpdate : RegenerateAdmitted(s)}
       \cup {s \in sectionsToTranslate :
                TranslateAdmitted(s) /\ generatedContent[s] # EmptyText}

\* C21: nothing is retried.  An extraction call is issued only by a Generate
\* command; the batch call only by the success of that extraction, once; the
\* cycle ends when the batch call settles; a regenerate or translate command
\* issues at most one call, a reconciliation pass at most one for each
\* request it makes (a regeneration or a translation of a section);
\* a step that ends in a failure issues no call, and the reconciliation pass
\* of its render issues none either.
C21_NoRetry ==
    [][ /\ (gen'.pc = "extract" /\ gen' # gen) => (handleGenerate /\ gen.pc = "idle")
        /\ (gen'.pc = "generateAll" /\ gen' # gen) =>
              /\ gen.pc = "extract"
              /\ productData' # Null
              /\ gen'.c = gen.c
        /\ (gen.pc = "generateAll" /\ gen' # gen) => gen'.pc = "idle"
        /\ CallsInFlight(ops') > CallsInFlight(ops) =>
              \/ commands' = commands + 1 /\ CallsInFlight(ops') = CallsInFlight(ops) + 1
              \/ /\ effectsPending
                 /\ \A s \in Sections : \A k \in {"regenerate", "translate"} :
                       Calls(ops', k, s) <= Calls(ops, k, s) + 1
        /\ FailureStep =>
              /\ gen'.pc = "idle" \/ gen' = gen
              /\ \A o \in BagToSet(ops') : CopiesIn(o, ops') <= CopiesIn(o, ops)
              /\ PassIssues' = {} ]_vars

\* C22: whenever no section call is in flight the pending set is empty, and
\* (every issued call settling) a section that is in the pending set
\* eventually is not.
C22_PendingSectionsLeave ==
    /\ [](ops = EmptyBag => regeneratingSections = {})
    /\ \A s \in Sections : (s \in regeneratingSections) ~> (s \notin regeneratingSections)

\* C22 witness: a regeneration of description has failed, nothing is pending
\* and the content is still shown.
C22_Witness ==
    /\ ErrorLine("regenerate", "description") \in logs
    /\ generatedContent # Null
    /\ ~isLoading
    /\ ops = EmptyBag
    /\ regeneratingSections = {}

\* The language the output language resolves to, and the text sections the
\* content shows (reviews only if present).
ResolvedTarget == IF outputLanguage = "auto" THEN originLanguage ELSE outputLanguage
ShownTextSections ==
    RequiredKeys \cup (IF Truthy(generatedContent, "reviews") THEN {"reviews"} ELSE {})

\* C23: when the output language has changed in Ready state and resolves to
\* language L, and every dispatched translation succeeds, the system
\* eventually is Ready with the language tag of every text section of the
\* content equal to L (unless the user issues another command first).
C23_LanguageChangeConverges ==
    \A L \in LANGUAGES : \A n \in 0..MaxCommands :
       (/\ effectsPending
        /\ Ready
        /\ lastUsedOutputLanguage # NoLanguage
        /\ outputLanguage # lastUsedOutputLanguage
        /\ ResolvedTarget = L
        /\ commands = n)
       ~> \/ commands > n
          \/ /\ Ready
             /\ ~effectsPending
             /\ \A s \in ShownTextSections : sectionLanguages[s] = L

\* C24: the step that ends a Generate cycle with success leaves the origin
\* language detected from the record (Hebrew for 'he', else English), every
\* text section's tag equal to the resolved generation language, the photo
\* equal to the record's image and the snapshots equal to the options and
\* output language the cycle used, and its render issues no reconciliation
\* call.
C24_SuccessfulGenerationSettlesState ==
    [][ GenerationSucceeds =>
          LET initialLanguage ==
                 IF gen.scrapedData.language = "he" THEN "Hebrew" ELSE "English"
              resolved ==
                 IF gen.outputLanguage = "auto" THEN initialLanguage ELSE gen.outputLanguage
          IN /\ originLanguage' = initialLanguage
             /\ \A s \in TextSections : sectionLanguages'[s] = resolved
             /\ generatedContent'["photo"] = Image(gen.scrapedData)
             /\ lastUsedOptions' = gen.options
             /\ lastUsedOutputLanguage' = gen.outputLanguage
             /\ PassIssues' = {} ]_vars

\* The cleaning rule as stated: headings and lead-ins go from the start of
\* the response only, a dash or star that begins a line becomes the bullet
\* glyph, blank lines are dropped.
RECURSIVE StartStripped(_)
StartStripped(text) ==
    IF text = <<>> THEN <<>>
    ELSE IF Head(text) \in {"", "# Title", "Here is the list:", "Lehalan hateur:"}
         THEN StartStripped(Tail(text))
    ELSE IF Head(text) = "Here is the header: Great" THEN <<"Great">> \o Tail(text)
    ELSE text
StatedCleaning(text) ==
    LET s == StartStripped(text)
        marked == [i \in 1..Len(s) |-> IF s[i] \in {"- item", "* item"} THEN "o item" ELSE s[i]]
    IN SelectSeq(marked, NotBlank)

\* C25: what every text-producing call (generateAll, regenerateSection,
\* translateSection) makes of its response is the response cleaned by the
\* stated rule.
C25_CleaningRuleOnEveryCall ==
    (aiText.call \in CleaningCalls /\ aiText.done) => aiText.out = StatedCleaning(aiText.raw)

C27_NoRegenerateWithoutContent ==
    [][ \A key \in KeyInputs \ {5} :
          (generatedContent = Null /\ handleKeyDown(key))
             => UNCHANGED <<ops, regeneratingSections, generatedContent>> ]_vars

\* The input is empty while a cycle runs: only Clear and Reset empty it then
\* (the text area is disabled while loading), and Generate stays disabled
\* until the cycle has ended and text is typed.
ClearedWhileLoading == isLoading /\ userInput = <<>>

\* C28: after a Clear or Reset issued while a generation runs, no step stores
\* a product record or content before the user issues a new Generate, whatever
\* call completes.
C28_ClearedStaysAbsent ==
    [][ ClearedWhileLoading => (productData' = Null /\ generatedContent' = Null) ]_vars

\* C29: whenever content is present and nothing is in flight (no cycle, no
\* section call, no effect due), the language tag of every text section with
\* text is the language that text was last generated, regenerated or
\* translated in.
C29_TagsNameContentLanguage ==
    (generatedContent # Null /\ gen = GenIdle /\ ops = EmptyBag /\ ~effectsPending)
       => \A s \in TextSections :
             Truthy(generatedContent, s) => sectionLanguages[s] = generatedContent[s].l

\* C30: an input classified as a URL, white space around it included, passes
\* scrapeUrl's own validity check: its cycle never fails with the invalid-URL
\* message.
C30_ClassifiedUrlIsValidUrl ==
    [][ (gen.pc = "extract" /\ detectInputType(gen.input) = "auto")
           => (~InvalidUrl(gen.input) /\ error' # InvalidUrlMessage) ]_vars

====
